---- MODULE Spec2Model ----
(***************************************************************************)
(* GeoStaff front end: the attendance capture workflow (AttendanceWidget), *)
(* the attendance service adapter and the shared axios client.             *)
(*                                                                         *)
(* The browser is single threaded: every action below is one event-loop    *)
(* task (a UI event handler, a timer callback or the continuation of an    *)
(* awaited promise) run to completion, followed by React's re-render.      *)
(* Timers carry no clock: a pending timer may fire at any later task.      *)
(***************************************************************************)
EXTENDS Integers, Sequences, FiniteSets, TLC

\* ------------------------------------------------------------------ bounds
MaxGets == 3      \* GET /attendance/today requests issued per fetch chain
MaxPosts == 3     \* check-in / check-out requests issued
MaxStreams == 2   \* camera stream requests (timers, pending and granted)
MaxCalls == 2     \* requests issued by the other service adapters
MaxIdCalls == 3   \* calls of getDeviceId
MaxLeaves == 2    \* leave requests of the employee
MaxCancels == 2   \* POST /leave/cancel requests
MaxLoads == 3     \* loadLeaveData calls
MaxClock == 10    \* wall-clock minutes 0..MaxClock
MaxFormSends == 3 \* requests issued by the login, OTP and leave forms
MaxDay == 9       \* calendar days 0..MaxDay; day 0 is Monday 2024-01-01

\* --------------------------------------------------------------- constants
NoLoc == [null |-> TRUE]                     \* location === null
Fix == [latitude |-> 28, longitude |-> 77, accuracy |-> 10]
NoPhoto == "null"                            \* capturedPhoto === null
Photo == "data:image/png;base64"             \* reader.result of a capture
NoStatus == "null"                           \* todayAttendance === null
Statuses == {"not-started", "checked-in", "checked-out"}
WorkStatuses == {"office", "site", "remote"}
NoteTexts == {"", "late"}
NoItem == "null"                             \* localStorage.getItem(k) === null
Token == "jwt"
UserProfile == "{user}"
DeviceId == "device_1"                       \* the value generated on first use
Absent == "absent"                           \* key not present in a request body
Json_null == "json-null"                     \* key present with value null

Chains == {"load", "refetch"}    \* who started a fetchTodayAttendance chain
Adapters == {"auth", "attendance", "leave", "health"}
NoResponse == 0                              \* error.response undefined
ErrorStatuses == {NoResponse, 400, 401, 403, 500}

ErrNone == ""
ErrLoad == "Failed to load attendance data. Please try again."
ErrGeo == "Unable to get your location. Please enable location services."
ErrCamera == "Unable to access camera. Please enable camera permissions."
ErrNoLocation == "Location not available. Please enable location services."
ErrNoPhoto == "Photo is required. Please capture a photo."
ErrCheckIn == "Failed to check in"
ErrCheckOut == "Failed to check out"
ErrDetail == "server detail"                 \* err.response.data.detail
NoDetail == "undefined"
MsgNone == ""
MsgCheckedIn == "Checked in"                 \* response.message
MsgCheckedOut == "Checked out"

VARIABLES
  \* AttendanceWidget state (useState)
  mounted, todayAttendance, loading, actionLoading, error, success,
  location, workStatus, showCameraModal, capturedPhoto, notes, cameraActive,
  \* camera: videoRef.current.srcObject, granted streams, pending callbacks
  srcObject, tracks, camTimers, gumPending, playPending, capturePending,
  \* network and timers of the widget
  geoPending, getInFlight, getCount, retryTimers, refetchTimers,
  posts, postCount, lastClick,
  \* backend
  serverStatus,
  \* browser: localStorage and window.location
  token, user, device_id, href,
  \* requests of the other adapters through the shared client
  calls, callCount, rejected,
  \* leaveService.calculateLeaveDays: host time zone, arguments and locals
  tzOffset, calcStart, calcEnd, current, days, calcPc,
  \* values returned by the calls of getDeviceId so far
  idReturns,
  \* LeaveManagementTab: loading flag, displayed history, loads and cancel
  \* requests in flight, and the statuses held by the server
  lvLoading, leaveHistory, loadsInFlight, loadCount, cancelsInFlight, cancelCount,
  serverLeaves,
  \* hours-worked card: wall clock, today's check-in and check-out timestamps
  \* and the value calculateHoursWorked() returned at the last render
  clock, hwCheckIn, hwCheckOut, hoursShown,
  \* what ProtectedRoute returned at its last render
  routeView,
  \* the page on screen and the requests its forms have issued
  page, formRequests, formSent,
  \* Login: phone field, loading flag, error
  phone, loginLoading, loginError,
  \* OTPVerification: the six boxes, loading flag, error, resend flag, the
  \* countdown in seconds and whether the resend link is offered
  otp, otpLoading, otpError, resending, timer, canResend,
  \* LeaveManagementTab apply form
  showApplyForm, startDate, endDate, reason, calculatedDays, submitting, applyError

widgetVars == <<mounted, todayAttendance, loading, actionLoading, error, success,
                location, workStatus, showCameraModal, capturedPhoto, notes,
                cameraActive>>
cameraVars == <<srcObject, tracks, camTimers, gumPending, playPending, capturePending>>
fetchVars == <<getInFlight, getCount, retryTimers, refetchTimers>>
postVars == <<posts, postCount, lastClick>>
storageVars == <<token, user, device_id, href>>
httpVars == <<calls, callCount, rejected>>
calcVars == <<tzOffset, calcStart, calcEnd, current, days, calcPc>>
deviceVars == <<idReturns>>
leaveVars == <<lvLoading, leaveHistory, loadsInFlight, loadCount, cancelsInFlight,
               cancelCount, serverLeaves>>
hoursVars == <<clock, hwCheckIn, hwCheckOut, hoursShown>>
routeVars == <<routeView>>
netVars == <<formRequests, formSent>>
loginVars == <<phone, loginLoading, loginError>>
otpVars == <<otp, otpLoading, otpError, resending, timer, canResend>>
applyVars == <<showApplyForm, startDate, endDate, reason, calculatedDays, submitting,
               applyError>>
formVars == <<page, netVars, loginVars, otpVars, applyVars>>
auxVars == <<calcVars, deviceVars, leaveVars, hoursVars, routeVars, formVars>>
componentVars == <<widgetVars, cameraVars, fetchVars, postVars, geoPending, serverStatus,
                   httpVars>>
coreVars == <<widgetVars, cameraVars, fetchVars, postVars, geoPending, serverStatus,
              storageVars, httpVars>>
vars == <<widgetVars, cameraVars, fetchVars, postVars, geoPending, serverStatus,
          storageVars, httpVars, auxVars>>

\* ------------------------------------------------------------------ helpers
\* React drops a state update made after the component has been unmounted.
SetState(old, new) == IF mounted THEN new ELSE old

\* The <video ref={videoRef}> element is in the DOM only while the widget is
\* mounted, past the loading early return and the camera modal is shown.
VideoMounted(m, l, s) == m /\ ~l /\ s
VideoRef == VideoMounted(mounted, loading, showCameraModal)

Live(ts) == {i \in 1..Len(ts) : ts[i] = "live"}

canCheckIn == todayAttendance = "not-started"
\* Mutant: every status other than not-started counts as checked in.
canCheckOut_AnyOther == todayAttendance # "not-started"

canCheckOut == todayAttendance = "checked-in"
isCheckedOut == todayAttendance = "checked-out"

\* ------------------------------------------------------------- HTTP client
\* Mutant: the 401 branch removes the token but leaves the user profile.
InterceptError_KeepsUser(status, st) ==
  IF status # NoResponse /\ status = 401
  THEN [token |-> NoItem, user |-> st.user, href |-> "/"]
  ELSE st

\* Response interceptor, error branch: the storage and location it leaves.
InterceptError(status, st) ==
  IF status # NoResponse /\ status = 401
  THEN [token |-> NoItem, user |-> NoItem, href |-> "/"]
  ELSE st

Storage == [token |-> token, user |-> user, href |-> href]

\* Mutant: a 403 is treated like a 401.
ApplyIntercept_ForbiddenClears(status) ==
  LET r == InterceptError(IF status = 403 THEN 401 ELSE status, Storage)
  IN /\ token' = r.token
     /\ user' = r.user
     /\ href' = r.href

\* The interceptor's side effects on localStorage and window.location.
ApplyIntercept(status) ==
  LET r == InterceptError(status, Storage)
  IN /\ token' = r.token
     /\ user' = r.user
     /\ href' = r.href

\* ------------------------------------------------------------------- Init
\* The widget's own state after its first render and its mount effect.
ComponentInit ==
  /\ mounted = TRUE
  /\ todayAttendance = NoStatus
  /\ loading = TRUE
  /\ actionLoading = FALSE
  /\ error = ErrNone
  /\ success = MsgNone
  /\ location = NoLoc
  /\ workStatus = "office"
  /\ showCameraModal = FALSE
  /\ capturedPhoto = NoPhoto
  /\ notes = ""
  /\ cameraActive = FALSE
  /\ srcObject = 0
  /\ tracks = <<>>
  /\ camTimers = 0
  /\ gumPending = 0
  /\ playPending = 0
  /\ capturePending = FALSE
  /\ geoPending = TRUE
  /\ getInFlight = [c \in Chains |-> IF c = "load" THEN 1 ELSE 0]
  /\ getCount = [c \in Chains |-> IF c = "load" THEN 1 ELSE 0]
  /\ retryTimers = [c \in Chains |-> 0]
  /\ refetchTimers = 0
  /\ posts = <<>>
  /\ postCount = 0
  /\ lastClick = "none"
  /\ calls = {}
  /\ callCount = 0
  /\ rejected = {}

\* The widget on the dashboard of a logged-in employee.
WidgetInit ==
  /\ ComponentInit
  /\ serverStatus \in Statuses
  /\ token = Token
  /\ user = UserProfile
  /\ device_id \in {NoItem, DeviceId}
  /\ href = "/employee/dashboard"

\* No call of calculateLeaveDays is in progress.
CalcIdle ==
  /\ tzOffset = 0
  /\ calcStart = 0
  /\ calcEnd = 0
  /\ current = 0
  /\ days = 0
  /\ calcPc = "idle"

\* LeaveManagementTab is not mounted.
LeaveIdle ==
  /\ lvLoading = FALSE
  /\ leaveHistory = <<>>
  /\ loadsInFlight = 0
  /\ loadCount = 0
  /\ cancelsInFlight = <<>>
  /\ cancelCount = 0
  /\ serverLeaves = <<>>

\* A timestamp that is absent (todayAttendance?.check_in is undefined).
NoTime == -1

\* The hours card shows a day without check-in: the string '0.0'.
HoursIdle ==
  /\ clock = 0
  /\ hwCheckIn = NoTime
  /\ hwCheckOut = NoTime
  /\ hoursShown = [sign |-> "", tenths |-> 0]

\* The dashboard is displayed inside its ProtectedRoute.
RouteIdle == routeView = [element |-> "children"]

\* An absent date: the '' of an empty date input.
NoDate == -1

\* No form request issued, and the useState initial values of Login, of
\* OTPVerification and of the apply form of LeaveManagementTab.
FormsIdle ==
  /\ formRequests = <<>>
  /\ formSent = 0
  /\ phone = <<>>
  /\ loginLoading = FALSE
  /\ loginError = ""
  /\ otp = [i \in 1..6 |-> <<>>]
  /\ otpLoading = FALSE
  /\ otpError = ""
  /\ resending = FALSE
  /\ timer = 60
  /\ canResend = FALSE
  /\ showApplyForm = FALSE
  /\ startDate = NoDate
  /\ endDate = NoDate
  /\ reason = <<>>
  /\ calculatedDays = 0
  /\ submitting = FALSE
  /\ applyError = ""

AuxIdle ==
  /\ CalcIdle /\ idReturns = <<>> /\ LeaveIdle /\ HoursIdle /\ RouteIdle
  /\ page = "dashboard" /\ FormsIdle

Init == WidgetInit /\ AuxIdle

\* --------------------------------------------------- fetchTodayAttendance
\* The synchronous head of fetchTodayAttendance: setLoading(true),
\* setError('') and the GET.  The loading early return removes the modal,
\* and with it the video element, from the DOM.
StartFetch(c) ==
  /\ loading' = SetState(loading, TRUE)
  /\ error' = SetState(error, ErrNone)
  /\ getInFlight' = [getInFlight EXCEPT ![c] = @ + 1]
  /\ getCount' = [getCount EXCEPT ![c] = @ + 1]
  /\ srcObject' = 0
  /\ playPending' = 0

\* Mutant: the status is taken from the server once and kept from then on.
FetchSuccess_KeepsOnceSet(c) ==
  /\ getInFlight[c] > 0
  /\ getInFlight' = [getInFlight EXCEPT ![c] = @ - 1]
  /\ todayAttendance' = SetState(todayAttendance,
                                 IF todayAttendance = NoStatus THEN serverStatus
                                                               ELSE todayAttendance)
  /\ loading' = SetState(loading, FALSE)
  /\ UNCHANGED <<mounted, actionLoading, error, success, location, workStatus,
                 showCameraModal, capturedPhoto, notes, cameraActive>>
  /\ UNCHANGED <<cameraVars, getCount, retryTimers, refetchTimers, postVars,
                 geoPending, serverStatus, storageVars, httpVars, auxVars>>

\* GET /attendance/today answered 200: the try block and finally.
FetchSuccess(c) ==
  /\ getInFlight[c] > 0
  /\ getInFlight' = [getInFlight EXCEPT ![c] = @ - 1]
  /\ todayAttendance' = SetState(todayAttendance, serverStatus)
  /\ loading' = SetState(loading, FALSE)
  /\ UNCHANGED <<mounted, actionLoading, error, success, location, workStatus,
                 showCameraModal, capturedPhoto, notes, cameraActive>>
  /\ UNCHANGED <<cameraVars, getCount, retryTimers, refetchTimers, postVars,
                 geoPending, serverStatus, storageVars, httpVars, auxVars>>

\* Mutant: only the first failure of a chain arms the retry timer.
FetchFail_GivesUp(c, status) ==
  /\ getInFlight[c] > 0
  /\ getInFlight' = [getInFlight EXCEPT ![c] = @ - 1]
  /\ ApplyIntercept(status)
  /\ error' = SetState(error, ErrLoad)
  /\ retryTimers' = IF getCount[c] < 2 THEN [retryTimers EXCEPT ![c] = @ + 1]
                                        ELSE retryTimers
  /\ loading' = SetState(loading, FALSE)
  /\ UNCHANGED <<mounted, todayAttendance, actionLoading, success, location,
                 workStatus, showCameraModal, capturedPhoto, notes, cameraActive>>
  /\ UNCHANGED <<cameraVars, getCount, refetchTimers, postVars, geoPending,
                 serverStatus, device_id, httpVars, auxVars>>

\* GET /attendance/today failed: interceptor, then catch and finally.
FetchFail(c, status) ==
  /\ getInFlight[c] > 0
  /\ getInFlight' = [getInFlight EXCEPT ![c] = @ - 1]
  /\ ApplyIntercept(status)
  /\ error' = SetState(error, ErrLoad)
  /\ retryTimers' = [retryTimers EXCEPT ![c] = @ + 1]
  /\ loading' = SetState(loading, FALSE)
  /\ UNCHANGED <<mounted, todayAttendance, actionLoading, success, location,
                 workStatus, showCameraModal, capturedPhoto, notes, cameraActive>>
  /\ UNCHANGED <<cameraVars, getCount, refetchTimers, postVars, geoPending,
                 serverStatus, device_id, httpVars, auxVars>>

\* The 2000 ms timer of the catch block fires.
RetryTimerFires(c) ==
  /\ retryTimers[c] > 0
  /\ getCount[c] < MaxGets
  /\ retryTimers' = [retryTimers EXCEPT ![c] = @ - 1]
  /\ StartFetch(c)
  /\ UNCHANGED <<mounted, todayAttendance, actionLoading, success, location,
                 workStatus, showCameraModal, capturedPhoto, notes, cameraActive>>
  /\ UNCHANGED <<tracks, camTimers, gumPending, capturePending, refetchTimers,
                 postVars, geoPending, serverStatus, storageVars, httpVars, auxVars>>

\* The 500 ms timer set after a successful submission fires.
RefetchTimerFires ==
  /\ refetchTimers > 0
  /\ getCount["refetch"] < MaxGets
  /\ refetchTimers' = refetchTimers - 1
  /\ StartFetch("refetch")
  /\ UNCHANGED <<mounted, todayAttendance, actionLoading, success, location,
                 workStatus, showCameraModal, capturedPhoto, notes, cameraActive>>
  /\ UNCHANGED <<tracks, camTimers, gumPending, capturePending, retryTimers,
                 postVars, geoPending, serverStatus, storageVars, httpVars, auxVars>>

\* ------------------------------------------------------------ fetchLocation
GeoSuccess ==
  /\ geoPending
  /\ geoPending' = FALSE
  /\ location' = SetState(location, Fix)
  /\ error' = SetState(error, ErrNone)
  /\ UNCHANGED <<mounted, todayAttendance, loading, actionLoading, success,
                 workStatus, showCameraModal, capturedPhoto, notes, cameraActive>>
  /\ UNCHANGED <<cameraVars, fetchVars, postVars, serverStatus, storageVars, httpVars, auxVars>>

\* Mutant: the catch block asks for the position again.
GeoFail_Retries ==
  /\ geoPending
  /\ geoPending' = TRUE
  /\ error' = SetState(error, ErrGeo)
  /\ UNCHANGED <<mounted, todayAttendance, loading, actionLoading, success, location,
                 workStatus, showCameraModal, capturedPhoto, notes, cameraActive>>
  /\ UNCHANGED <<cameraVars, fetchVars, postVars, serverStatus, storageVars, httpVars, auxVars>>

\* getCurrentLocation rejects: the catch block of fetchLocation.
GeoFail ==
  /\ geoPending
  /\ geoPending' = FALSE
  /\ error' = SetState(error, ErrGeo)
  /\ UNCHANGED <<mounted, todayAttendance, loading, actionLoading, success, location,
                 workStatus, showCameraModal, capturedPhoto, notes, cameraActive>>
  /\ UNCHANGED <<cameraVars, fetchVars, postVars, serverStatus, storageVars, httpVars, auxVars>>

\* ------------------------------------------------------------------ camera
\* stopCamera(): only a stream attached to the video element in the DOM is
\* stopped; the result is the new tracks and cameraActive.
StopCamera ==
  IF VideoRef /\ srcObject # 0
  THEN [tracks |-> [tracks EXCEPT ![srcObject] = "stopped"], cameraActive |-> FALSE]
  ELSE [tracks |-> tracks, cameraActive |-> cameraActive]

\* The "Capture Photo (Required)" button of the check-in / check-out controls.
CaptureButtonShown ==
  mounted /\ ~loading /\ (canCheckIn \/ canCheckOut) /\ capturedPhoto = NoPhoto
\* The "Retake Photo" button.
RetakeButtonShown ==
  mounted /\ ~loading /\ (canCheckIn \/ canCheckOut) /\ capturedPhoto # NoPhoto

StreamBudget == camTimers + gumPending + Len(tracks) < MaxStreams

\* openCameraModal(): show the modal, cameraActive false, arm the 100 ms timer.
OpenCameraModalBody ==
  /\ showCameraModal' = TRUE
  /\ cameraActive' = FALSE
  /\ camTimers' = camTimers + 1

openCameraModal ==
  /\ CaptureButtonShown
  /\ StreamBudget
  /\ OpenCameraModalBody
  /\ UNCHANGED <<mounted, todayAttendance, loading, actionLoading, error, success,
                 location, workStatus, capturedPhoto, notes>>
  /\ UNCHANGED <<srcObject, tracks, gumPending, playPending, capturePending>>
  /\ UNCHANGED <<fetchVars, postVars, geoPending, serverStatus, storageVars, httpVars, auxVars>>

retakePhoto ==
  /\ RetakeButtonShown
  /\ StreamBudget
  /\ capturedPhoto' = NoPhoto
  /\ OpenCameraModalBody
  /\ UNCHANGED <<mounted, todayAttendance, loading, actionLoading, error, success,
                 location, workStatus, notes>>
  /\ UNCHANGED <<srcObject, tracks, gumPending, playPending, capturePending>>
  /\ UNCHANGED <<fetchVars, postVars, geoPending, serverStatus, storageVars, httpVars, auxVars>>

\* The 100 ms timer of openCameraModal fires: setError('') and getUserMedia.
CameraTimerFires ==
  /\ camTimers > 0
  /\ camTimers' = camTimers - 1
  /\ error' = SetState(error, ErrNone)
  /\ gumPending' = gumPending + 1
  /\ UNCHANGED <<mounted, todayAttendance, loading, actionLoading, success, location,
                 workStatus, showCameraModal, capturedPhoto, notes, cameraActive>>
  /\ UNCHANGED <<srcObject, tracks, playPending, capturePending>>
  /\ UNCHANGED <<fetchVars, postVars, geoPending, serverStatus, storageVars, httpVars, auxVars>>

\* getUserMedia resolves with a new stream.  It is attached, and play()
\* called, only if the video element is in the DOM; attaching a stream
\* aborts the play() promise of the stream it replaces.
GetUserMediaGranted ==
  /\ gumPending > 0
  /\ gumPending' = gumPending - 1
  /\ tracks' = Append(tracks, "live")
  /\ IF VideoRef
     THEN srcObject' = Len(tracks) + 1 /\ playPending' = Len(tracks) + 1
     ELSE UNCHANGED <<srcObject, playPending>>
  /\ UNCHANGED <<camTimers, capturePending>>
  /\ UNCHANGED <<widgetVars, fetchVars, postVars, geoPending, serverStatus,
                 storageVars, httpVars, auxVars>>

\* getUserMedia rejects: the catch block of the timer callback.
GetUserMediaDenied ==
  /\ gumPending > 0
  /\ gumPending' = gumPending - 1
  /\ error' = SetState(error, ErrCamera)
  /\ showCameraModal' = SetState(showCameraModal, FALSE)
  /\ cameraActive' = SetState(cameraActive, FALSE)
  /\ srcObject' = 0
  /\ playPending' = 0
  /\ UNCHANGED <<mounted, todayAttendance, loading, actionLoading, success, location,
                 workStatus, capturedPhoto, notes>>
  /\ UNCHANGED <<tracks, camTimers, capturePending>>
  /\ UNCHANGED <<fetchVars, postVars, geoPending, serverStatus, storageVars, httpVars, auxVars>>

\* play() resolves for the stream attached to the element in the DOM.
PlayResolves ==
  /\ playPending # 0
  /\ playPending' = 0
  /\ cameraActive' = SetState(cameraActive, TRUE)
  /\ UNCHANGED <<mounted, todayAttendance, loading, actionLoading, error, success,
                 location, workStatus, showCameraModal, capturedPhoto, notes>>
  /\ UNCHANGED <<srcObject, tracks, camTimers, gumPending, capturePending>>
  /\ UNCHANGED <<fetchVars, postVars, geoPending, serverStatus, storageVars, httpVars, auxVars>>

\* play() rejects: the .catch only logs.
PlayRejects ==
  /\ playPending # 0
  /\ playPending' = 0
  /\ UNCHANGED <<srcObject, tracks, camTimers, gumPending, capturePending>>
  /\ UNCHANGED <<widgetVars, fetchVars, postVars, geoPending, serverStatus,
                 storageVars, httpVars, auxVars>>

\* Click on the modal's capture button (disabled={!cameraActive}): the frame
\* is drawn and toBlob / FileReader started.  A video element without a
\* stream has videoWidth 0, toBlob then yields null and nothing is captured.
handleCapturePhoto ==
  /\ VideoRef
  /\ cameraActive
  /\ srcObject # 0
  /\ ~capturePending
  /\ capturePending' = TRUE
  /\ UNCHANGED <<srcObject, tracks, camTimers, gumPending, playPending>>
  /\ UNCHANGED <<widgetVars, fetchVars, postVars, geoPending, serverStatus,
                 storageVars, httpVars, auxVars>>

\* reader.onloadend: setCapturedPhoto, stopCamera(), setShowCameraModal(false).
CaptureCompletes ==
  /\ capturePending
  /\ capturePending' = FALSE
  /\ capturedPhoto' = SetState(capturedPhoto, Photo)
  /\ tracks' = StopCamera.tracks
  /\ cameraActive' = StopCamera.cameraActive
  /\ showCameraModal' = SetState(showCameraModal, FALSE)
  /\ srcObject' = 0
  /\ playPending' = 0
  /\ UNCHANGED <<mounted, todayAttendance, loading, actionLoading, error, success,
                 location, workStatus, notes>>
  /\ UNCHANGED <<camTimers, gumPending>>
  /\ UNCHANGED <<fetchVars, postVars, geoPending, serverStatus, storageVars, httpVars, auxVars>>

\* Click on the modal's X or Cancel button.
closeCameraModal ==
  /\ VideoRef
  /\ tracks' = StopCamera.tracks
  /\ cameraActive' = StopCamera.cameraActive
  /\ showCameraModal' = FALSE
  /\ srcObject' = 0
  /\ playPending' = 0
  /\ UNCHANGED <<mounted, todayAttendance, loading, actionLoading, error, success,
                 location, workStatus, capturedPhoto, notes>>
  /\ UNCHANGED <<camTimers, gumPending, capturePending>>
  /\ UNCHANGED <<fetchVars, postVars, geoPending, serverStatus, storageVars, httpVars, auxVars>>

\* The widget is unmounted (the dashboard tab is switched or the route left).
\* The mount effect returns no cleanup: timers, promises and streams stay.
Unmount ==
  /\ mounted
  /\ mounted' = FALSE
  /\ srcObject' = 0
  /\ playPending' = 0
  /\ UNCHANGED <<todayAttendance, loading, actionLoading, error, success, location,
                 workStatus, showCameraModal, capturedPhoto, notes, cameraActive>>
  /\ UNCHANGED <<tracks, camTimers, gumPending, capturePending>>
  /\ UNCHANGED <<fetchVars, postVars, geoPending, serverStatus, storageVars, httpVars, auxVars>>

\* ------------------------------------------------------ attendanceService
\* Values the template `device_${Date.now()}_${Math.random()...}` can produce.
FreshIds == {DeviceId, "device_2"}

\* Mutant: a new id is generated on every call.
getDeviceIdWith_AlwaysFresh(stored, fresh) == fresh

\* getDeviceId() when the generator would produce `fresh`: the stored id if
\* there is one, else the generated one.
getDeviceIdWith(stored, fresh) == IF stored = NoItem THEN fresh ELSE stored

\* getDeviceId() as the widget's submissions see it.
getDeviceId(stored) == getDeviceIdWith(stored, DeviceId)

\* notes || null
NotesOrNull(n) == IF n = "" THEN Json_null ELSE n

\* Body of POST /attendance/check-in as built by checkIn(...).
checkIn(loc, ws, dev, photoUrl, n) ==
  [path |-> "/attendance/check-in",
   latitude |-> loc.latitude, longitude |-> loc.longitude, accuracy |-> loc.accuracy,
   device_id |-> dev, work_status |-> ws, photo_url |-> photoUrl, notes |-> n]

\* Body of POST /attendance/check-out as built by checkOut(...).
checkOut(loc, dev, n) ==
  [path |-> "/attendance/check-out",
   latitude |-> loc.latitude, longitude |-> loc.longitude, accuracy |-> loc.accuracy,
   device_id |-> dev, work_status |-> Absent, photo_url |-> Absent, notes |-> n]

\* ------------------------------------------------------------- submission
\* What a call of handleCheckIn / handleCheckOut does in the current state:
\* the two guards in the order of the code, else the request is sent.
\* Mutant: handleCheckIn without its location guard.
handleCheckInOutcome_NoLocationGuard ==
  IF capturedPhoto = NoPhoto THEN "noPhoto" ELSE "send"

handleCheckInOutcome ==
  IF location = NoLoc THEN "noLocation"
  ELSE IF capturedPhoto = NoPhoto THEN "noPhoto"
  ELSE "send"

\* Mutant: handleCheckOut without its photo guard.
handleCheckOutOutcome_NoPhotoGuard ==
  IF location = NoLoc THEN "noLocation" ELSE "send"

handleCheckOutOutcome ==
  IF location = NoLoc THEN "noLocation"
  ELSE IF capturedPhoto = NoPhoto THEN "noPhoto"
  ELSE "send"

\* Mutant: the Check In button ignores a pending submission.
CheckInDisabled_IgnoresPending == location = NoLoc \/ capturedPhoto = NoPhoto

\* disabled={actionLoading || !location || !capturedPhoto} on both buttons.
CheckInDisabled == actionLoading \/ location = NoLoc \/ capturedPhoto = NoPhoto
CheckOutDisabled == actionLoading \/ location = NoLoc \/ capturedPhoto = NoPhoto

CheckInControlsShown == mounted /\ ~loading /\ canCheckIn
CheckOutControlsShown == mounted /\ ~loading /\ canCheckOut

GuardError(outcome) == IF outcome = "noLocation" THEN ErrNoLocation ELSE ErrNoPhoto

\* The handler body: an early return with an error, or the request.
Submit(outcome, body) ==
  IF outcome = "send"
  THEN /\ error' = ErrNone
       /\ success' = MsgNone
       /\ actionLoading' = TRUE
       /\ device_id' = getDeviceId(device_id)
       /\ posts' = Append(posts, body)
       /\ postCount' = postCount + 1
  ELSE /\ error' = GuardError(outcome)
       /\ UNCHANGED <<success, actionLoading, device_id, posts, postCount>>

\* A click on the Check In button; a disabled button drops the click.
ClickCheckIn ==
  /\ CheckInControlsShown
  /\ postCount < MaxPosts
  /\ IF CheckInDisabled
     THEN /\ lastClick' = "disabled"
          /\ UNCHANGED <<error, success, actionLoading, device_id, posts, postCount>>
     ELSE /\ lastClick' = "handled"
          /\ Submit(handleCheckInOutcome,
                    checkIn(location, workStatus, getDeviceId(device_id),
                            capturedPhoto, NotesOrNull(notes)))
  /\ UNCHANGED <<mounted, todayAttendance, loading, location, workStatus,
                 showCameraModal, capturedPhoto, notes, cameraActive>>
  /\ UNCHANGED <<cameraVars, fetchVars, geoPending, serverStatus, token, user, href,
                 httpVars, auxVars>>

\* A click on the Check Out button.
ClickCheckOut ==
  /\ CheckOutControlsShown
  /\ postCount < MaxPosts
  /\ IF CheckOutDisabled
     THEN /\ lastClick' = "disabled"
          /\ UNCHANGED <<error, success, actionLoading, device_id, posts, postCount>>
     ELSE /\ lastClick' = "handled"
          /\ Submit(handleCheckOutOutcome,
                    checkOut(location, getDeviceId(device_id), NotesOrNull(notes)))
  /\ UNCHANGED <<mounted, todayAttendance, loading, location, workStatus,
                 showCameraModal, capturedPhoto, notes, cameraActive>>
  /\ UNCHANGED <<cameraVars, fetchVars, geoPending, serverStatus, token, user, href,
                 httpVars, auxVars>>

\* The backend accepts a check-in only on a day not started and a check-out
\* only after a check-in.
ServerAccepts(body) ==
  IF body.path = "/attendance/check-in"
  THEN serverStatus = "not-started"
  ELSE serverStatus = "checked-in"

ServerAfter(body) ==
  IF body.path = "/attendance/check-in" THEN "checked-in" ELSE "checked-out"

RemoveAt(q, i) == SubSeq(q, 1, i - 1) \o SubSeq(q, i + 1, Len(q))

\* Mutant: a successful submission leaves the notes field as typed.
PostSuccess_KeepsNotes(i) ==
  /\ i \in 1..Len(posts)
  /\ ServerAccepts(posts[i])
  /\ serverStatus' = ServerAfter(posts[i])
  /\ posts' = RemoveAt(posts, i)
  /\ success' = SetState(success, IF posts[i].path = "/attendance/check-in"
                                  THEN MsgCheckedIn ELSE MsgCheckedOut)
  /\ capturedPhoto' = SetState(capturedPhoto, NoPhoto)
  /\ refetchTimers' = refetchTimers + 1
  /\ actionLoading' = SetState(actionLoading, FALSE)
  /\ UNCHANGED <<mounted, todayAttendance, loading, error, location, workStatus,
                 showCameraModal, cameraActive, notes>>
  /\ UNCHANGED <<cameraVars, getInFlight, getCount, retryTimers, postCount, lastClick,
                 geoPending, storageVars, httpVars, auxVars>>

\* The POST is answered 2xx: rest of the try block, then finally.
PostSuccess(i) ==
  /\ i \in 1..Len(posts)
  /\ ServerAccepts(posts[i])
  /\ serverStatus' = ServerAfter(posts[i])
  /\ posts' = RemoveAt(posts, i)
  /\ success' = SetState(success, IF posts[i].path = "/attendance/check-in"
                                  THEN MsgCheckedIn ELSE MsgCheckedOut)
  /\ capturedPhoto' = SetState(capturedPhoto, NoPhoto)
  /\ notes' = SetState(notes, "")
  /\ refetchTimers' = refetchTimers + 1
  /\ actionLoading' = SetState(actionLoading, FALSE)
  /\ UNCHANGED <<mounted, todayAttendance, loading, error, location, workStatus,
                 showCameraModal, cameraActive>>
  /\ UNCHANGED <<cameraVars, getInFlight, getCount, retryTimers, postCount, lastClick,
                 geoPending, storageVars, httpVars, auxVars>>

\* Mutant: the fixed message is shown whatever the response carries.
SubmitError_FallbackOnly(path, detail) ==
  IF path = "/attendance/check-in" THEN ErrCheckIn ELSE ErrCheckOut

\* err.response?.data?.detail || fallback
SubmitError(path, detail) ==
  IF detail # NoDetail THEN detail
  ELSE IF path = "/attendance/check-in" THEN ErrCheckIn ELSE ErrCheckOut

\* Mutant: the failure path without the finally block.
PostFail_NoFinally(i, status, detail) ==
  /\ i \in 1..Len(posts)
  /\ status = NoResponse => detail = NoDetail
  /\ ~ServerAccepts(posts[i]) => status # NoResponse
  /\ ApplyIntercept(status)
  /\ posts' = RemoveAt(posts, i)
  /\ error' = SetState(error, SubmitError(posts[i].path, detail))
  /\ UNCHANGED <<mounted, todayAttendance, loading, actionLoading, success, location,
                 workStatus, showCameraModal, capturedPhoto, notes, cameraActive>>
  /\ UNCHANGED <<cameraVars, fetchVars, postCount, lastClick, geoPending,
                 serverStatus, device_id, httpVars, auxVars>>

\* The POST fails: interceptor, then catch and finally.
PostFail(i, status, detail) ==
  /\ i \in 1..Len(posts)
  /\ status = NoResponse => detail = NoDetail
  /\ ~ServerAccepts(posts[i]) => status # NoResponse
  /\ ApplyIntercept(status)
  /\ posts' = RemoveAt(posts, i)
  /\ error' = SetState(error, SubmitError(posts[i].path, detail))
  /\ actionLoading' = SetState(actionLoading, FALSE)
  /\ UNCHANGED <<mounted, todayAttendance, loading, success, location, workStatus,
                 showCameraModal, capturedPhoto, notes, cameraActive>>
  /\ UNCHANGED <<cameraVars, fetchVars, postCount, lastClick, geoPending,
                 serverStatus, device_id, httpVars, auxVars>>

\* The work-location buttons of the check-in controls.
setWorkStatus(ws) ==
  /\ CheckInControlsShown
  /\ workStatus' = ws
  /\ UNCHANGED <<mounted, todayAttendance, loading, actionLoading, error, success,
                 location, showCameraModal, capturedPhoto, notes, cameraActive>>
  /\ UNCHANGED <<cameraVars, fetchVars, postVars, geoPending, serverStatus,
                 storageVars, httpVars, auxVars>>

\* The notes input of the check-in and check-out controls.
setNotes(n) ==
  /\ CheckInControlsShown \/ CheckOutControlsShown
  /\ notes' = n
  /\ UNCHANGED <<mounted, todayAttendance, loading, actionLoading, error, success,
                 location, workStatus, showCameraModal, capturedPhoto, cameraActive>>
  /\ UNCHANGED <<cameraVars, fetchVars, postVars, geoPending, serverStatus,
                 storageVars, httpVars, auxVars>>

\* ------------------------------------------- requests of the other adapters
\* Tokens the server issues: the stored one and one issued later.
Tokens == {Token, "jwt2"}

\* Mutant: the header is set whatever getItem('token') returns.
AuthHeader_Always(tok) == [scheme |-> "Bearer", credentials |-> tok]

\* Request interceptor: if (token) config.headers.Authorization = `Bearer ${token}`;
\* [absent |-> TRUE] is a request without the header.
AuthHeader(tok) ==
  IF tok # NoItem THEN [scheme |-> "Bearer", credentials |-> tok] ELSE [absent |-> TRUE]

Headers == {[absent |-> TRUE]} \cup [scheme : {"Bearer"}, credentials : Tokens]

\* Any service adapter (authService, attendanceService, leaveService,
\* healthService) sends a request through the shared axios instance.
Request(a) ==
  /\ callCount < MaxCalls
  /\ callCount' = callCount + 1
  /\ calls' = calls \cup {[id |-> callCount + 1, adapter |-> a,
                           authorization |-> AuthHeader(token)]}
  /\ UNCHANGED <<rejected, widgetVars, cameraVars, fetchVars, postVars, geoPending,
                 serverStatus, storageVars, auxVars>>

\* Response interceptor, success branch: the response is passed through.
ResponseOk(c) ==
  /\ c \in calls
  /\ calls' = calls \ {c}
  /\ UNCHANGED <<callCount, rejected, widgetVars, cameraVars, fetchVars, postVars,
                 geoPending, serverStatus, storageVars, auxVars>>

\* Response interceptor, error branch: side effects, then Promise.reject(error).
ResponseError(c, status) ==
  /\ c \in calls
  /\ calls' = calls \ {c}
  /\ ApplyIntercept(status)
  /\ rejected' = rejected \cup {[id |-> c.id, adapter |-> c.adapter, status |-> status]}
  /\ UNCHANGED <<callCount, device_id, widgetVars, cameraVars, fetchVars, postVars,
                 geoPending, serverStatus, auxVars>>

\* A call of attendanceService.getDeviceId(): returns the id and leaves it in
\* localStorage under 'device_id'.
getDeviceIdCall(fresh) ==
  /\ Len(idReturns) < MaxIdCalls
  /\ device_id' = getDeviceIdWith(device_id, fresh)
  /\ idReturns' = Append(idReturns, getDeviceIdWith(device_id, fresh))
  /\ UNCHANGED <<token, user, href, httpVars, widgetVars, cameraVars, fetchVars,
                 postVars, geoPending, serverStatus, calcVars, leaveVars, hoursVars, routeVars, formVars>>

CallIds == 1..(MaxCalls + 1)
AllCalls == [id : CallIds, adapter : Adapters, authorization : Headers]

\* authService.isAuthenticated(): !!localStorage.getItem('token').
isAuthenticated == token \notin {NoItem, ""}

\* Mutant: the response's access_token is stored without being tested.
StoreSession_Unguarded(c, tok) ==
  /\ c \in calls
  /\ c.adapter = "auth"
  /\ calls' = calls \ {c}
  /\ token' = tok
  /\ user' = UserProfile
  /\ UNCHANGED <<device_id, href, callCount, rejected, widgetVars, cameraVars,
                 fetchVars, postVars, geoPending, serverStatus, auxVars>>

\* authService.verifyOTP / refreshToken answered 2xx with access_token tok
\* ("" for a response without one): if (response.data.access_token) the
\* token and the user are stored.
StoreSession(c, tok) ==
  /\ c \in calls
  /\ c.adapter = "auth"
  /\ calls' = calls \ {c}
  /\ token' = IF tok # "" THEN tok ELSE token
  /\ user' = IF tok # "" THEN UserProfile ELSE user
  /\ UNCHANGED <<device_id, href, callCount, rejected, widgetVars, cameraVars,
                 fetchVars, postVars, geoPending, serverStatus, auxVars>>

ProtectedPaths == {"/employee/dashboard", "/manager/dashboard", "/admin/dashboard"}

\* Mutant: the children are returned without looking at the token.
ProtectedRoute_Unguarded(tok) == [element |-> "children"]

\* ProtectedRoute: <Navigate to="/" replace /> without a token, else children.
ProtectedRoute(tok) ==
  IF tok = NoItem THEN [element |-> "Navigate", to |-> "/", replace |-> TRUE]
                  ELSE [element |-> "children"]

\* The router renders the ProtectedRoute of a protected path.
RenderProtectedRoute(path) ==
  /\ routeView' = ProtectedRoute(token)
  /\ href' = IF ProtectedRoute(token).element = "Navigate"
             THEN ProtectedRoute(token).to ELSE path
  /\ UNCHANGED <<token, user, device_id, httpVars, widgetVars, cameraVars, fetchVars,
                 postVars, geoPending, serverStatus, calcVars, deviceVars, leaveVars,
                 hoursVars, formVars>>

\* authService.logout().
logout ==
  /\ token # NoItem
  /\ token' = NoItem
  /\ user' = NoItem
  /\ href' = "/"
  /\ UNCHANGED <<device_id, httpVars, widgetVars, cameraVars, fetchVars, postVars,
                 geoPending, serverStatus, auxVars>>

NextHttp ==
  \/ \E a \in Adapters : Request(a)
  \/ \E c \in AllCalls : ResponseOk(c)
  \/ \E c \in AllCalls, s \in ErrorStatuses : ResponseError(c, s)
  \/ \E c \in AllCalls, tok \in Tokens \cup {""} : StoreSession(c, tok)
  \/ logout

SpecHttp == Init /\ [][NextHttp]_vars

\* The browser's session: what localStorage holds over logins, expiry
\* (401) and logout, as seen by getDeviceId and ProtectedRoute.
NextSession ==
  \/ Request("auth")
  \/ \E c \in AllCalls, tok \in Tokens \cup {""} : StoreSession(c, tok)
  \/ \E c \in AllCalls : ResponseError(c, 401)
  \/ logout
  \/ \E fresh \in FreshIds : getDeviceIdCall(fresh)
  \/ \E path \in ProtectedPaths : RenderProtectedRoute(path)

SpecSession == Init /\ [][NextSession]_vars

Next ==
  \/ \E c \in Chains : FetchSuccess(c)
  \/ \E c \in Chains, s \in ErrorStatuses : FetchFail(c, s)
  \/ \E c \in Chains : RetryTimerFires(c)
  \/ RefetchTimerFires
  \/ GeoSuccess
  \/ GeoFail
  \/ openCameraModal
  \/ retakePhoto
  \/ CameraTimerFires
  \/ GetUserMediaGranted
  \/ GetUserMediaDenied
  \/ PlayResolves
  \/ PlayRejects
  \/ handleCapturePhoto
  \/ CaptureCompletes
  \/ closeCameraModal
  \/ Unmount
  \/ ClickCheckIn
  \/ ClickCheckOut
  \/ \E i \in 1..MaxPosts : PostSuccess(i)
  \/ \E i \in 1..MaxPosts, s \in ErrorStatuses, d \in {ErrDetail, NoDetail} : PostFail(i, s, d)
  \/ \E ws \in WorkStatuses : setWorkStatus(ws)
  \/ \E n \in NoteTexts : setNotes(n)

Spec == Init /\ [][Next]_vars

\* The submission workflow: the widget with a camera that is granted and
\* used for one capture per opening (no cancel, no retake, no denial).
NextSubmit ==
  \/ \E c \in Chains : FetchSuccess(c)
  \/ \E c \in Chains, s \in ErrorStatuses : FetchFail(c, s)
  \/ \E c \in Chains : RetryTimerFires(c)
  \/ RefetchTimerFires
  \/ GeoSuccess
  \/ GeoFail
  \/ openCameraModal
  \/ CameraTimerFires
  \/ GetUserMediaGranted
  \/ PlayResolves
  \/ handleCapturePhoto
  \/ CaptureCompletes
  \/ Unmount
  \/ ClickCheckIn
  \/ ClickCheckOut
  \/ \E i \in 1..MaxPosts : PostSuccess(i)
  \/ \E i \in 1..MaxPosts, s \in ErrorStatuses, d \in {ErrDetail, NoDetail} : PostFail(i, s, d)
  \/ \E n \in NoteTexts : setNotes(n)

\* The axios instance has timeout 10000: every request in flight is answered
\* or fails, so the awaited promise of a submission always settles.
SpecSubmitFair ==
  /\ Init
  /\ [][NextSubmit]_vars
  /\ WF_vars(\E i \in 1..MaxPosts :
               \/ PostSuccess(i)
               \/ \E s \in ErrorStatuses, d \in {ErrDetail, NoDetail} : PostFail(i, s, d))

\* ----------------------------------------- leaveService.calculateLeaveDays
\* Calendar dates are day numbers (day 0 = Monday 2024-01-01); a Date is its
\* time value in minutes since 2024-01-01T00:00Z, 1440 minutes a day.
Days == 0..MaxDay
\* Host time zones: minutes east of UTC (New York, UTC, Kolkata).
TzOffsets == {-300, 0, 330}

\* new Date("YYYY-MM-DD"): a date-only string is parsed as UTC midnight.
ParseDate(d) == d * 1440

\* Date.prototype.getDay(): the day of the week, 0 = Sunday .. 6 = Saturday,
\* of the local calendar day (t + tz) \div 1440 the time value falls on.
getDay(t, tz) == (((t + tz) \div 1440) + 1) % 7

\* current.setDate(current.getDate() + 1): the next local day, same local time.
NextDate(t) == t + 1440

\* Mutant: the range is put in order before counting.
LeaveRange_Sorted(s, e) ==
  IF s <= e THEN [current |-> ParseDate(s), end |-> ParseDate(e)]
            ELSE [current |-> ParseDate(e), end |-> ParseDate(s)]

\* const start = new Date(startDate); const end = new Date(endDate);
\* const current = new Date(start);
LeaveRange(s, e) == [current |-> ParseDate(s), end |-> ParseDate(e)]

\* dayOfWeek !== 0 && dayOfWeek !== 6
CountsAsLeaveDay(t, tz) == getDay(t, tz) # 0 /\ getDay(t, tz) # 6

\* The whole loop, as the form calls it.
RECURSIVE LeaveLoop(_, _, _, _)
LeaveLoop(cur, end, n, tz) ==
  IF cur <= end
  THEN LeaveLoop(NextDate(cur), end, IF CountsAsLeaveDay(cur, tz) THEN n + 1 ELSE n, tz)
  ELSE n

calculateLeaveDays(s, e, tz) ==
  LeaveLoop(LeaveRange(s, e).current, LeaveRange(s, e).end, 0, tz)

\* A call of calculateLeaveDays(calcStart, calcEnd) about to enter its loop.
CalcInit ==
  /\ tzOffset \in TzOffsets
  /\ calcStart \in Days
  /\ calcEnd \in Days
  /\ current = LeaveRange(calcStart, calcEnd).current
  /\ days = 0
  /\ calcPc = "loop"

\* One iteration of while (current <= end).
LeaveLoopStep ==
  /\ calcPc = "loop"
  /\ current <= LeaveRange(calcStart, calcEnd).end
  /\ days' = IF CountsAsLeaveDay(current, tzOffset) THEN days + 1 ELSE days
  /\ current' = NextDate(current)
  /\ UNCHANGED <<tzOffset, calcStart, calcEnd, calcPc, coreVars, deviceVars, leaveVars, hoursVars, routeVars, formVars>>

\* The loop condition fails: return days.
LeaveReturn ==
  /\ calcPc = "loop"
  /\ ~(current <= LeaveRange(calcStart, calcEnd).end)
  /\ calcPc' = "done"
  /\ UNCHANGED <<tzOffset, calcStart, calcEnd, current, days, coreVars, deviceVars, leaveVars, hoursVars, routeVars, formVars>>

InitLeave == WidgetInit /\ CalcInit /\ idReturns = <<>> /\ LeaveIdle /\ HoursIdle /\ RouteIdle
  /\ page = "dashboard" /\ FormsIdle

NextLeave ==
  \/ LeaveLoopStep
  \/ LeaveReturn

SpecLeave == InitLeave /\ [][NextLeave]_vars

\* The loop runs in one task: it is never suspended.
SpecLeaveFair == SpecLeave /\ WF_vars(LeaveLoopStep) /\ WF_vars(LeaveReturn)

\* ------------------------------------------ LeaveManagementTab: history view
LeaveIds == 1..MaxLeaves

\* Mutant: the button is shown for every request that is not yet cancelled.
CancelOffered_NotCancelled(status) == status # "cancelled"

\* (leave.status === 'pending' || leave.status === 'approved') && <button>
CancelOffered(status) == status = "pending" \/ status = "approved"

\* The row of request id is on screen: the table replaces 'Loading...' and
\* leaveHistory.map renders one row per entry.
RowShown(id) == ~lvLoading /\ id \in DOMAIN leaveHistory

\* The Cancel button of request id is on screen.
CancelButtonShown(id) == RowShown(id) /\ CancelOffered(leaveHistory[id])

\* State after the tab's first render and its mount effect (loadLeaveData).
LeaveViewInit ==
  /\ lvLoading = TRUE
  /\ leaveHistory = <<>>
  /\ loadsInFlight = 1
  /\ loadCount = 1
  /\ cancelsInFlight = <<>>
  /\ cancelCount = 0
  /\ serverLeaves \in [LeaveIds -> {"pending", "approved", "rejected", "cancelled"}]

\* loadLeaveData: setLoading(true) and the two GETs.
loadLeaveData ==
  /\ lvLoading' = TRUE
  /\ loadsInFlight' = loadsInFlight + 1
  /\ loadCount' = loadCount + 1

\* Both GETs answered: setLeaveHistory(history.requests || []); finally
\* setLoading(false).
LoadLeaveSuccess ==
  /\ loadsInFlight > 0
  /\ loadsInFlight' = loadsInFlight - 1
  /\ leaveHistory' = serverLeaves
  /\ lvLoading' = FALSE
  /\ UNCHANGED <<loadCount, cancelsInFlight, cancelCount, serverLeaves, coreVars,
                 calcVars, deviceVars, hoursVars, routeVars, formVars>>

\* One of the GETs failed: console.error; finally setLoading(false).
LoadLeaveFail ==
  /\ loadsInFlight > 0
  /\ loadsInFlight' = loadsInFlight - 1
  /\ lvLoading' = FALSE
  /\ UNCHANGED <<leaveHistory, loadCount, cancelsInFlight, cancelCount, serverLeaves,
                 coreVars, calcVars, deviceVars, hoursVars, routeVars, formVars>>

\* Click on the Cancel button of a row, confirm() answered OK:
\* leaveService.cancelLeave(id) posts /leave/cancel/{id}.  (Answering the
\* confirm() with Cancel returns without any effect.)
handleCancelLeave(id) ==
  /\ CancelButtonShown(id)
  /\ cancelCount < MaxCancels
  /\ cancelCount' = cancelCount + 1
  /\ cancelsInFlight' = Append(cancelsInFlight, id)
  /\ UNCHANGED <<lvLoading, leaveHistory, loadsInFlight, loadCount, serverLeaves,
                 coreVars, calcVars, deviceVars, hoursVars, routeVars, formVars>>

\* The server cancels a request only from pending or approved.
ServerCancels(id) == serverLeaves[id] \in {"pending", "approved"}

\* POST /leave/cancel/{id} answered 2xx: await loadLeaveData().
CancelSuccess(i) ==
  /\ i \in 1..Len(cancelsInFlight)
  /\ ServerCancels(cancelsInFlight[i])
  /\ loadCount < MaxLoads
  /\ serverLeaves' = [serverLeaves EXCEPT ![cancelsInFlight[i]] = "cancelled"]
  /\ cancelsInFlight' = RemoveAt(cancelsInFlight, i)
  /\ loadLeaveData
  /\ UNCHANGED <<leaveHistory, cancelCount, coreVars, calcVars, deviceVars, hoursVars, routeVars, formVars>>

\* POST /leave/cancel/{id} rejected: alert('Failed to cancel leave request').
CancelFail(i) ==
  /\ i \in 1..Len(cancelsInFlight)
  /\ cancelsInFlight' = RemoveAt(cancelsInFlight, i)
  /\ UNCHANGED <<lvLoading, leaveHistory, loadsInFlight, loadCount, cancelCount,
                 serverLeaves, coreVars, calcVars, deviceVars, hoursVars, routeVars, formVars>>

\* A manager approves or rejects a pending request on the server.
ManagerDecides(id, st) ==
  /\ serverLeaves[id] = "pending"
  /\ serverLeaves' = [serverLeaves EXCEPT ![id] = st]
  /\ UNCHANGED <<lvLoading, leaveHistory, loadsInFlight, loadCount, cancelsInFlight,
                 cancelCount, coreVars, calcVars, deviceVars, hoursVars, routeVars, formVars>>

InitLeaveView == WidgetInit /\ CalcIdle /\ idReturns = <<>> /\ LeaveViewInit /\ HoursIdle /\ RouteIdle
  /\ page = "dashboard" /\ FormsIdle

NextLeaveView ==
  \/ LoadLeaveSuccess
  \/ LoadLeaveFail
  \/ \E id \in LeaveIds : handleCancelLeave(id)
  \/ \E i \in 1..MaxCancels : CancelSuccess(i)
  \/ \E i \in 1..MaxCancels : CancelFail(i)
  \/ \E id \in LeaveIds, st \in {"approved", "rejected"} : ManagerDecides(id, st)

SpecLeaveView == InitLeaveView /\ [][NextLeaveView]_vars

\* ------------------------------------------------------ calculateHoursWorked
\* Time values are minutes on the wall clock.
Times == 0..MaxClock

\* Number.prototype.toFixed(1) of m/60 for m >= 0, in tenths: the nearest
\* tenth of the double's exact value.  With m % 6 = 3, m/60 hours is halfway
\* between two tenths: the double nearest to it lies above the halfway point
\* for 3, 27, 33, 39 minutes (0.05, 0.45, 0.55, 0.65) and below it for 9, 15
\* and 21 (0.15, 0.25, 0.35).
TenthsOf(m) ==
  (m \div 6) + (IF (m % 6) > 3 \/ ((m % 6) = 3 /\ m \in {3, 27, 33, 39}) THEN 1 ELSE 0)

\* hours.toFixed(1): sign and digits of the string ('-0.0' for -0.02).
toFixed1(minutes) ==
  IF minutes < 0 THEN [sign |-> "-", tenths |-> TenthsOf(0 - minutes)]
                 ELSE [sign |-> "", tenths |-> TenthsOf(minutes)]

\* The number a displayed string stands for, in tenths of an hour.
HoursValue(str) == IF str.sign = "-" THEN 0 - str.tenths ELSE str.tenths

\* Mutant: the operands of the subtraction are exchanged.
calculateHoursWorked_Swapped(checkInTime, checkOutTime, now) ==
  IF checkInTime = NoTime THEN [sign |-> "", tenths |-> 0]
  ELSE toFixed1(checkInTime - (IF checkOutTime # NoTime THEN checkOutTime ELSE now))

\* calculateHoursWorked() for the given attendance record at wall-clock now.
calculateHoursWorked(checkInTime, checkOutTime, now) ==
  IF checkInTime = NoTime THEN [sign |-> "", tenths |-> 0]
  ELSE toFixed1((IF checkOutTime # NoTime THEN checkOutTime ELSE now) - checkInTime)

\* The card at its first render, at wall-clock time 0.
HoursInit ==
  /\ clock = 0
  /\ hwCheckIn \in {NoTime} \cup Times
  /\ hwCheckOut = NoTime
  /\ hoursShown = calculateHoursWorked(hwCheckIn, hwCheckOut, clock)

\* Time passes.
ClockTick ==
  /\ clock < MaxClock
  /\ clock' = clock + 1
  /\ UNCHANGED <<hwCheckIn, hwCheckOut, hoursShown, coreVars, calcVars, deviceVars,
                 leaveVars, routeVars, formVars>>

\* Any state change of the widget re-renders it: calculateHoursWorked() is
\* evaluated again with new Date().
Rerender ==
  /\ hoursShown' = calculateHoursWorked(hwCheckIn, hwCheckOut, clock)
  /\ hoursShown' # hoursShown
  /\ UNCHANGED <<clock, hwCheckIn, hwCheckOut, coreVars, calcVars, deviceVars, leaveVars, routeVars, formVars>>

\* setTodayAttendance(data) with a record that now has a check-in stamped t
\* by the server, and the render that follows.
AttendanceCheckedIn(t) ==
  /\ hwCheckIn = NoTime
  /\ hwCheckIn' = t
  /\ hoursShown' = calculateHoursWorked(t, hwCheckOut, clock)
  /\ UNCHANGED <<clock, hwCheckOut, coreVars, calcVars, deviceVars, leaveVars, routeVars, formVars>>

\* setTodayAttendance(data) with a record that now has a check-out stamped t
\* by the server, and the render that follows.
AttendanceCheckedOut(t) ==
  /\ hwCheckIn # NoTime
  /\ hwCheckOut = NoTime
  /\ t >= hwCheckIn
  /\ hwCheckOut' = t
  /\ hoursShown' = calculateHoursWorked(hwCheckIn, t, clock)
  /\ UNCHANGED <<clock, hwCheckIn, coreVars, calcVars, deviceVars, leaveVars, routeVars, formVars>>

InitHours == WidgetInit /\ CalcIdle /\ idReturns = <<>> /\ LeaveIdle /\ HoursInit /\ RouteIdle
  /\ page = "dashboard" /\ FormsIdle

NextHours ==
  \/ ClockTick
  \/ Rerender
  \/ \E t \in Times : AttendanceCheckedIn(t)
  \/ \E t \in Times : AttendanceCheckedOut(t)

SpecHours == InitHours /\ [][NextHours]_vars

\* ------------------------------------------------------------ Login (page)
\* Strings typed into the forms are sequences of characters.
notFormVars == <<coreVars, calcVars, deviceVars, leaveVars, hoursVars, routeVars>>

IsDigit(ch) == ch \in {"7", "9"}

\* value.replace(/\D/g, '').slice(0, 10)
formatPhoneNumber(value) ==
  LET cleaned == SelectSeq(value, IsDigit)
  IN SubSeq(cleaned, 1, IF Len(cleaned) < 10 THEN Len(cleaned) ELSE 10)

\* The phone input's onChange with the raw value of the input.
handlePhoneChange(value) ==
  /\ page = "login"
  /\ ~loginLoading
  /\ formatPhoneNumber(value) # phone
  /\ phone' = formatPhoneNumber(value)
  /\ UNCHANGED <<loginLoading, loginError, page, netVars, otpVars, applyVars, notFormVars>>

\* disabled={loading || phone.length < 10}
LoginSubmitDisabled == loginLoading \/ Len(phone) < 10

\* Login.handleSubmit: if (!phone || phone.length < 10) ... return
LoginValidation == IF phone = <<>> \/ Len(phone) < 10 THEN "invalid" ELSE "send"

\* The login form is submitted (a disabled submit button blocks submission).
LoginSubmit ==
  /\ page = "login"
  /\ ~LoginSubmitDisabled
  /\ formSent < MaxFormSends
  /\ IF LoginValidation = "send"
     THEN /\ loginError' = ""
          /\ loginLoading' = TRUE
          /\ formRequests' = Append(formRequests, [path |-> "/auth/send-otp", phone |-> phone])
          /\ formSent' = formSent + 1
     ELSE /\ loginError' = "Please enter a valid 10-digit phone number"
          /\ UNCHANGED <<loginLoading, netVars>>
  /\ UNCHANGED <<phone, page, otpVars, applyVars, notFormVars>>

\* POST /auth/send-otp answered 2xx: navigate('/verify-otp'), where
\* OTPVerification mounts; finally setLoading(false).
SendOtpSuccess(i) ==
  /\ i \in 1..Len(formRequests)
  /\ formRequests[i].path = "/auth/send-otp"
  /\ formRequests' = RemoveAt(formRequests, i)
  /\ page' = "otp"
  /\ href' = "/verify-otp"
  /\ loginLoading' = FALSE
  /\ UNCHANGED <<phone, loginError, formSent, otpVars, applyVars, componentVars, token,
                 user, device_id, calcVars, deviceVars, leaveVars, hoursVars, routeVars>>

\* POST /auth/send-otp failed: interceptor, then catch and finally.
SendOtpFail(i, status, detail) ==
  /\ i \in 1..Len(formRequests)
  /\ formRequests[i].path = "/auth/send-otp"
  /\ status = NoResponse => detail = NoDetail
  /\ ApplyIntercept(status)
  /\ formRequests' = RemoveAt(formRequests, i)
  /\ loginError' = IF detail # NoDetail THEN detail
                   ELSE "Failed to send OTP. Please try again."
  /\ loginLoading' = FALSE
  /\ UNCHANGED <<phone, page, formSent, otpVars, applyVars, componentVars, device_id,
                 calcVars, deviceVars, leaveVars, hoursVars, routeVars>>

\* -------------------------------------------------- OTPVerification (page)
EmptyOtp == [i \in 1..6 |-> <<>>]

\* isNaN(value): Number('') and Number(' ') are 0, Number('x') is NaN.
isNaN(value) == value \notin {<<>>, <<"7">>, <<" ">>}

\* otp.join('')
JoinOtp == otp[1] \o otp[2] \o otp[3] \o otp[4] \o otp[5] \o otp[6]

handleOtpChange(index, value) ==
  /\ page = "otp"
  /\ ~otpLoading
  /\ ~isNaN(value)
  /\ otp[index] # value
  /\ otp' = [otp EXCEPT ![index] = value]
  /\ UNCHANGED <<otpLoading, otpError, resending, timer, canResend, page, netVars,
                 loginVars, applyVars, notFormVars>>

\* disabled={loading || otp.join('').length !== 6}
OtpSubmitDisabled == otpLoading \/ Len(JoinOtp) # 6

\* OTPVerification.handleSubmit: if (otpString.length !== 6) ... return
OtpValidation == IF Len(JoinOtp) # 6 THEN "invalid" ELSE "send"

\* The OTP form is submitted.
OtpSubmit ==
  /\ page = "otp"
  /\ ~OtpSubmitDisabled
  /\ formSent < MaxFormSends
  /\ IF OtpValidation = "send"
     THEN /\ otpError' = ""
          /\ otpLoading' = TRUE
          /\ formRequests' = Append(formRequests,
                [path |-> "/auth/verify-otp", phone |-> phone, otp |-> JoinOtp])
          /\ formSent' = formSent + 1
     ELSE /\ otpError' = "Please enter a valid 6-digit OTP"
          /\ UNCHANGED <<otpLoading, netVars>>
  /\ UNCHANGED <<otp, resending, timer, canResend, page, loginVars, applyVars,
                 notFormVars>>

\* POST /auth/verify-otp answered 2xx: authService.verifyOTP stores the
\* session, the form navigates to the dashboard (OTPVerification unmounts
\* and its state is discarded), whose leave tab mounts and starts
\* loadLeaveData.
VerifySuccess(i) ==
  /\ i \in 1..Len(formRequests)
  /\ formRequests[i].path = "/auth/verify-otp"
  /\ formRequests' = RemoveAt(formRequests, i)
  /\ token' = Token
  /\ user' = UserProfile
  /\ href' = "/employee/dashboard"
  /\ page' = "leave"
  /\ otp' = EmptyOtp
  /\ otpLoading' = FALSE
  /\ otpError' = ""
  /\ resending' = FALSE
  /\ timer' = 60
  /\ canResend' = FALSE
  /\ lvLoading' = TRUE
  /\ leaveHistory' = <<>>
  /\ loadsInFlight' = 1
  /\ loadCount' = 1
  /\ cancelsInFlight' = <<>>
  /\ cancelCount' = 0
  /\ serverLeaves' = [id \in LeaveIds |-> "pending"]
  /\ UNCHANGED <<formSent, loginVars, applyVars, componentVars, device_id, calcVars,
                 deviceVars, hoursVars, routeVars>>

\* POST /auth/verify-otp failed: interceptor, then catch and finally.
VerifyFail(i, status, detail) ==
  /\ i \in 1..Len(formRequests)
  /\ formRequests[i].path = "/auth/verify-otp"
  /\ status = NoResponse => detail = NoDetail
  /\ ApplyIntercept(status)
  /\ formRequests' = RemoveAt(formRequests, i)
  /\ otpError' = IF detail # NoDetail THEN detail ELSE "Invalid OTP. Please try again."
  /\ otp' = EmptyOtp
  /\ otpLoading' = FALSE
  /\ UNCHANGED <<resending, timer, canResend, page, formSent, loginVars, applyVars,
                 componentVars, device_id, calcVars, deviceVars, leaveVars, hoursVars,
                 routeVars>>

\* Mutant: the interval keeps running at 0.
TimerTick_BelowZero ==
  /\ page = "otp"
  /\ timer > -1
  /\ timer' = timer - 1
  /\ canResend' = IF timer - 1 = 0 THEN TRUE ELSE canResend
  /\ UNCHANGED <<otp, otpLoading, otpError, resending, page, netVars, loginVars,
                 applyVars, notFormVars>>

\* The countdown effect: while timer > 0 a 1000 ms interval calls
\* setTimer(prev => prev - 1), and the effect runs again after the render;
\* at 0 no interval is set and setCanResend(true) is called.
TimerTick ==
  /\ page = "otp"
  /\ timer > 0
  /\ timer' = timer - 1
  /\ canResend' = IF timer - 1 = 0 THEN TRUE ELSE canResend
  /\ UNCHANGED <<otp, otpLoading, otpError, resending, page, netVars, loginVars,
                 applyVars, notFormVars>>

\* Click on Resend OTP (shown when canResend, disabled while resending).
handleResendOTP ==
  /\ page = "otp"
  /\ canResend
  /\ ~resending
  /\ formSent < MaxFormSends
  /\ resending' = TRUE
  /\ otpError' = ""
  /\ formRequests' = Append(formRequests, [path |-> "/auth/resend-otp", phone |-> phone])
  /\ formSent' = formSent + 1
  /\ UNCHANGED <<otp, otpLoading, timer, canResend, page, loginVars, applyVars,
                 notFormVars>>

\* POST /auth/resend-otp answered 2xx; the setState calls are dropped when
\* the page has been left in the meantime.
ResendSuccess(i) ==
  /\ i \in 1..Len(formRequests)
  /\ formRequests[i].path = "/auth/resend-otp"
  /\ formRequests' = RemoveAt(formRequests, i)
  /\ IF page # "otp"
     THEN UNCHANGED <<otp, resending, timer, canResend>>
     ELSE /\ resending' = FALSE
          /\ timer' = 60
          /\ canResend' = FALSE
          /\ otp' = EmptyOtp
  /\ UNCHANGED <<otpLoading, otpError, page, formSent, loginVars, applyVars, notFormVars>>

\* POST /auth/resend-otp failed: interceptor, then catch and finally.
ResendFail(i, status) ==
  /\ i \in 1..Len(formRequests)
  /\ formRequests[i].path = "/auth/resend-otp"
  /\ ApplyIntercept(status)
  /\ formRequests' = RemoveAt(formRequests, i)
  /\ IF page # "otp"
     THEN UNCHANGED <<otpError, resending>>
     ELSE /\ resending' = FALSE
          /\ otpError' = "Failed to resend OTP. Please try again."
  /\ UNCHANGED <<otp, otpLoading, timer, canResend, page, formSent, loginVars,
                 applyVars, componentVars, device_id, calcVars, deviceVars, leaveVars, hoursVars,
                 routeVars>>

\* ------------------------------------------ LeaveManagementTab: apply form
\* The form is on screen.
ApplyFormShown == page = "leave" /\ ~lvLoading /\ showApplyForm

RECURSIVE TrimStart(_)
TrimStart(str) ==
  IF str # <<>> /\ Head(str) = " " THEN TrimStart(Tail(str)) ELSE str

RECURSIVE TrimEnd(_)
TrimEnd(str) ==
  IF str # <<>> /\ str[Len(str)] = " " THEN TrimEnd(SubSeq(str, 1, Len(str) - 1)) ELSE str

\* String.prototype.trim()
trim(str) == TrimEnd(TrimStart(str))

\* The effect on [startDate, endDate]: the day count of the two dates, or 0.
DaysEffect(s, e) ==
  IF s # NoDate /\ e # NoDate THEN calculateLeaveDays(s, e, tzOffset) ELSE 0

\* The Apply for Leave / Cancel button above the form.
toggleApplyForm ==
  /\ page = "leave"
  /\ ~lvLoading
  /\ showApplyForm' = ~showApplyForm
  /\ UNCHANGED <<startDate, endDate, reason, calculatedDays, submitting, applyError,
                 page, netVars, loginVars, otpVars, notFormVars>>

\* The start date input, and the effect that recomputes the day count.
setStartDate(d) ==
  /\ ApplyFormShown
  /\ d # startDate
  /\ startDate' = d
  /\ calculatedDays' = DaysEffect(d, endDate)
  /\ UNCHANGED <<showApplyForm, endDate, reason, submitting, applyError, page, netVars,
                 loginVars, otpVars, notFormVars>>

\* The end date input, and the effect that recomputes the day count.
setEndDate(d) ==
  /\ ApplyFormShown
  /\ d # endDate
  /\ endDate' = d
  /\ calculatedDays' = DaysEffect(startDate, d)
  /\ UNCHANGED <<showApplyForm, startDate, reason, submitting, applyError, page,
                 netVars, loginVars, otpVars, notFormVars>>

\* The reason textarea.
setReason(r) ==
  /\ ApplyFormShown
  /\ r # reason
  /\ reason' = r
  /\ UNCHANGED <<showApplyForm, startDate, endDate, calculatedDays, submitting,
                 applyError, page, netVars, loginVars, otpVars, notFormVars>>

\* disabled={submitting || calculatedDays <= 0}
ApplySubmitDisabled == submitting \/ calculatedDays <= 0

\* The required attribute of the two date inputs and the textarea: the
\* browser does not submit the form while one of them is empty.
RequiredMissing == startDate = NoDate \/ endDate = NoDate \/ reason = <<>>

\* Mutant: the reason is tested without trim().
ApplyValidation_NoTrim ==
  IF startDate = NoDate \/ endDate = NoDate \/ reason = <<>> THEN "missing"
  ELSE IF calculatedDays <= 0 THEN "invalidRange"
  ELSE "send"

\* handleApplyLeave: the two early returns.
ApplyValidation ==
  IF startDate = NoDate \/ endDate = NoDate \/ trim(reason) = <<>> THEN "missing"
  ELSE IF calculatedDays <= 0 THEN "invalidRange"
  ELSE "send"

\* The apply form is submitted.
handleApplyLeave ==
  /\ ApplyFormShown
  /\ ~ApplySubmitDisabled
  /\ ~RequiredMissing
  /\ formSent < MaxFormSends
  /\ IF ApplyValidation = "send"
     THEN /\ applyError' = ""
          /\ submitting' = TRUE
          /\ formRequests' = Append(formRequests,
                [path |-> "/leave/apply", start_date |-> startDate,
                 end_date |-> endDate, reason |-> reason])
          /\ formSent' = formSent + 1
     ELSE /\ applyError' = IF ApplyValidation = "missing"
                           THEN "Please fill all required fields"
                           ELSE "Invalid date range"
          /\ UNCHANGED <<submitting, netVars>>
  /\ UNCHANGED <<showApplyForm, startDate, endDate, reason, calculatedDays, page,
                 loginVars, otpVars, notFormVars>>

\* POST /leave/apply answered 2xx: the server files the request as pending;
\* the form is reset and loadLeaveData() is awaited.
ApplySuccess(i) ==
  /\ i \in 1..Len(formRequests)
  /\ formRequests[i].path = "/leave/apply"
  /\ loadCount < MaxLoads
  /\ formRequests' = RemoveAt(formRequests, i)
  /\ serverLeaves' = Append(serverLeaves, "pending")
  /\ showApplyForm' = FALSE
  /\ startDate' = NoDate
  /\ endDate' = NoDate
  /\ reason' = <<>>
  /\ calculatedDays' = 0
  /\ loadLeaveData
  /\ UNCHANGED <<submitting, applyError, leaveHistory, cancelsInFlight, cancelCount,
                 page, formSent, loginVars, otpVars, coreVars, calcVars, deviceVars,
                 hoursVars, routeVars>>

\* POST /leave/apply failed: interceptor, then catch and finally.
ApplyFail(i, status, detail) ==
  /\ i \in 1..Len(formRequests)
  /\ formRequests[i].path = "/leave/apply"
  /\ status = NoResponse => detail = NoDetail
  /\ ApplyIntercept(status)
  /\ formRequests' = RemoveAt(formRequests, i)
  /\ applyError' = IF detail # NoDetail THEN detail ELSE "Failed to apply leave"
  /\ submitting' = FALSE
  /\ UNCHANGED <<showApplyForm, startDate, endDate, reason, calculatedDays, page,
                 formSent, loginVars, otpVars, componentVars, device_id, calcVars,
                 deviceVars, leaveVars, hoursVars, routeVars>>

\* loadLeaveData settles (both GETs answered, or one failed); the finally of
\* a handleApplyLeave that awaited it then runs setSubmitting(false).
ApplyLoadDone(ok) ==
  /\ page = "leave"
  /\ loadsInFlight > 0
  /\ loadsInFlight' = loadsInFlight - 1
  /\ leaveHistory' = IF ok THEN serverLeaves ELSE leaveHistory
  /\ lvLoading' = FALSE
  /\ submitting' = FALSE
  /\ UNCHANGED <<loadCount, cancelsInFlight, cancelCount, serverLeaves, showApplyForm,
                 startDate, endDate, reason, calculatedDays, applyError, page, netVars,
                 loginVars, otpVars, coreVars, calcVars, deviceVars, hoursVars,
                 routeVars>>

\* The login page of a browser without a session.
InitForms ==
  /\ ComponentInit
  /\ serverStatus = "not-started"
  /\ token = NoItem
  /\ user = NoItem
  /\ device_id = NoItem
  /\ href = "/"
  /\ tzOffset \in TzOffsets
  /\ calcStart = 0 /\ calcEnd = 0 /\ current = 0 /\ days = 0 /\ calcPc = "idle"
  /\ idReturns = <<>> /\ LeaveIdle /\ HoursIdle /\ RouteIdle
  /\ page = "login" /\ FormsIdle

NextForms ==
  \* a digit or a letter typed, the last character deleted, 12 digits pasted
  \/ \E value \in {Append(phone, "9"), Append(phone, "x"),
                    SubSeq(phone, 1, Len(phone) - 1), [i \in 1..12 |-> "9"]} :
        handlePhoneChange(value)
  \/ LoginSubmit
  \/ \E i \in 1..MaxFormSends : SendOtpSuccess(i)
  \/ \E i \in 1..MaxFormSends, st \in ErrorStatuses, d \in {ErrDetail, NoDetail} :
        SendOtpFail(i, st, d)
  \/ \E index \in 1..6, value \in {<<>>, <<"7">>, <<"x">>} : handleOtpChange(index, value)
  \/ OtpSubmit
  \/ \E i \in 1..MaxFormSends : VerifySuccess(i)
  \/ \E i \in 1..MaxFormSends, st \in ErrorStatuses, d \in {ErrDetail, NoDetail} :
        VerifyFail(i, st, d)
  \/ TimerTick
  \/ handleResendOTP
  \/ \E i \in 1..MaxFormSends : ResendSuccess(i)
  \/ \E i \in 1..MaxFormSends, st \in ErrorStatuses : ResendFail(i, st)
  \/ toggleApplyForm
  \* a date input cleared, or set to a Monday or the Saturday or Sunday after it
  \/ \E d \in {NoDate, 0, 5, 6} : setStartDate(d)
  \/ \E d \in {NoDate, 0, 5, 6} : setEndDate(d)
  \* the reason field: nothing, blanks only, a word
  \/ \E r \in {<<>>, <<" ", " ">>, <<"f", "l", "u">>} : setReason(r)
  \/ handleApplyLeave
  \/ \E i \in 1..MaxFormSends : ApplySuccess(i)
  \/ \E i \in 1..MaxFormSends, st \in ErrorStatuses, d \in {ErrDetail, NoDetail} :
        ApplyFail(i, st, d)
  \/ \E ok \in BOOLEAN : ApplyLoadDone(ok)

SpecForms == InitForms /\ [][NextForms]_vars

\* ==================================================================== claims
Bodies == {posts[i] : i \in 1..Len(posts)}

\* C1: while the geolocation fix is unresolved no check-in / check-out request
\* has been issued or is in flight, and a call of either handler in that state
\* takes the location guard: it sets the location error and sends nothing.
C1_NoSubmitWithoutLocation ==
  location = NoLoc =>
    /\ posts = <<>>
    /\ postCount = 0
    /\ handleCheckInOutcome = "noLocation"
    /\ handleCheckOutOutcome = "noLocation"
    /\ GuardError(handleCheckInOutcome) = ErrNoLocation

\* C1 witness: the Check In button was clicked with a photo but no fix.
C1_Witness ==
  /\ lastClick = "disabled"
  /\ CheckInControlsShown
  /\ location = NoLoc
  /\ capturedPhoto # NoPhoto
  /\ ~actionLoading
  /\ postCount = 0

C3_ClosedSurfaceHoldsNoStream ==
  (mounted /\ ~showCameraModal) => Live(tracks) = {}

\* C4 (as claimed): once the widget is unmounted no granted stream has live
\* tracks, and once a capture has completed (the photo is set and the surface
\* closed) none has either.
C4_ReleasedOnCaptureAndTeardown ==
  /\ ~mounted => Live(tracks) = {}
  /\ (mounted /\ capturedPhoto # NoPhoto /\ ~showCameraModal) => Live(tracks) = {}

\* C5: a 401 answer to a request of any adapter leaves no token and no user
\* profile in storage and the location at "/".
C5_UnauthorizedClearsSession ==
  [][\A c \in AllCalls :
       ResponseError(c, 401) => token' = NoItem /\ user' = NoItem /\ href' = "/"]_vars

\* C5 witness: a request of an adapter other than attendance was answered 401.
C5_Witness ==
  /\ \E r \in rejected : r.status = 401 /\ r.adapter = "leave"
  /\ token = NoItem
  /\ user = NoItem
  /\ href = "/"

\* C6 (as claimed): one initial load causes at most 2 GET /attendance/today,
\* and after the second no retry timer is pending.
C6_AtMostOneRetry ==
  /\ getCount["load"] <= 2
  /\ getCount["load"] = 2 => retryTimers["load"] = 0

\* C6 (amended): every failed fetch, a failed retry included, arms a retry:
\* until a status has been received exactly one request or retry timer of
\* the initial load is outstanding.
C6_RetriesUntilSuccess ==
  /\ getInFlight["load"] + retryTimers["load"] <= 1
  /\ (mounted /\ todayAttendance = NoStatus) =>
       getInFlight["load"] + retryTimers["load"] = 1

\* C6 witness: the second retry of the initial load has been issued.
C6_Witness ==
  /\ mounted
  /\ todayAttendance = NoStatus
  /\ getCount["load"] >= 3
  /\ getInFlight["load"] = 1

\* C7: the three flags follow the last received status: at most one is true,
\* none without a status, and the controls shown are those of that status.
C7_ActionFollowsStatus ==
  /\ canCheckIn <=> todayAttendance = "not-started"
  /\ canCheckOut <=> todayAttendance = "checked-in"
  /\ isCheckedOut <=> todayAttendance = "checked-out"
  /\ Cardinality({f \in {"in", "out", "done"} :
                    \/ f = "in" /\ canCheckIn
                    \/ f = "out" /\ canCheckOut
                    \/ f = "done" /\ isCheckedOut}) <= 1
  /\ todayAttendance = NoStatus => ~canCheckIn /\ ~canCheckOut /\ ~isCheckedOut
  /\ CheckInControlsShown => ~CheckOutControlsShown /\ ~isCheckedOut
  /\ CheckOutControlsShown => ~canCheckIn /\ ~isCheckedOut

\* C7 witness: the server reported checked-in and the check-out controls show.
C7_Witness ==
  /\ todayAttendance = "checked-in"
  /\ CheckOutControlsShown
  /\ ~CheckInControlsShown

\* C8: the step in which a check-in is answered successfully clears the photo
\* and the notes and arms the re-fetch timer; that timer leaves only by
\* issuing GET /attendance/today; a re-fetch answered successfully shows
\* the server's status, which is checked-in while the check-in's success
\* message is the one displayed.
C8_CheckInSuccessResetsAndRefetches ==
  /\ [][(mounted /\ serverStatus = "not-started" /\ serverStatus' = "checked-in") =>
          /\ capturedPhoto' = NoPhoto
          /\ notes' = ""
          /\ refetchTimers' = refetchTimers + 1]_vars
  /\ [][refetchTimers' < refetchTimers =>
          /\ getCount'["refetch"] = getCount["refetch"] + 1
          /\ getInFlight'["refetch"] = getInFlight["refetch"] + 1]_vars
  /\ [][(mounted /\ getInFlight'["refetch"] < getInFlight["refetch"]
                 /\ retryTimers' = retryTimers) =>
          /\ todayAttendance' = serverStatus
          /\ serverStatus # "not-started"
          /\ success = MsgCheckedIn => todayAttendance' = "checked-in"]_vars

\* C8 witness: after the check-in the re-fetch has shown checked-in.
C8_Witness ==
  /\ mounted
  /\ success = MsgCheckedIn
  /\ capturedPhoto = NoPhoto
  /\ notes = ""
  /\ getCount["refetch"] >= 1
  /\ refetchTimers = 0
  /\ todayAttendance = "checked-in"
  /\ serverStatus = "checked-in"

\* C9: at most one submission is in flight, and while one is, actionLoading
\* is true and both submit buttons are disabled.
C9_SingleSubmissionInFlight ==
  /\ Len(posts) <= 1
  /\ (mounted /\ posts # <<>>) =>
       actionLoading /\ CheckInDisabled /\ CheckOutDisabled

\* C9 witness: a click on Check In was dropped only because a submission with
\* the same fix and a photo was pending.
C9_Witness ==
  /\ Len(posts) = 1
  /\ lastClick = "disabled"
  /\ CheckInControlsShown
  /\ location # NoLoc
  /\ capturedPhoto # NoPhoto
  /\ actionLoading

\* C10 (as claimed): every request in flight carries the fix, the device id,
\* the captured photo and the notes, and the work status exactly on check-in.
C10_RequestCarriesAllFields ==
  \A b \in Bodies :
    /\ b.latitude = Fix.latitude /\ b.longitude = Fix.longitude
    /\ b.accuracy = Fix.accuracy
    /\ b.device_id = device_id
    /\ b.photo_url = Photo
    /\ b.notes # Absent
    /\ b.work_status # Absent <=> b.path = "/attendance/check-in"

\* C11 (as claimed): for start <= end the value returned is the number of
\* days of [start, end] that are neither Saturday (d % 7 = 5) nor Sunday
\* (d % 7 = 6), day 0 being a Monday.
C11_CountsWeekdays ==
  (calcPc = "done" /\ calcStart <= calcEnd) =>
     days = Cardinality({d \in calcStart..calcEnd : (d % 7) \notin {5, 6}})

\* C12: for start > end the value returned is 0, the counter is never
\* negative, and every call reaches its return.
C12_ReversedRangeIsZero ==
  /\ []((calcPc = "done" /\ calcStart > calcEnd) => days = 0)
  /\ [](days >= 0)
  /\ <>(calcPc = "done")

\* C12 witness: a call with start after end has returned 0.
C12_Witness ==
  /\ calcPc = "done"
  /\ calcStart > calcEnd
  /\ days = 0

\* C13: getDeviceId is idempotent after first generation: a call with
\* nothing stored generates a value and stores it, every call returns the
\* stored value, and a stored value is never overwritten.
C13_DeviceIdStable ==
  /\ [](\A i \in 1..Len(idReturns) : idReturns[i] = device_id /\ device_id # NoItem)
  /\ [][device_id # NoItem => device_id' = device_id]_vars
  /\ [][(device_id = NoItem /\ idReturns' # idReturns) =>
          (device_id' \in FreshIds /\ idReturns' = <<device_id'>>)]_vars

\* C13 witness: an id was generated by the first call and two later calls
\* returned it.
C13_Witness ==
  /\ Len(idReturns) = 3
  /\ device_id = "device_2"
  /\ \A i \in 1..3 : idReturns[i] = "device_2"

\* C14: in the leave history view the Cancel button of a displayed request
\* is on screen if and only if the request's displayed status is pending or
\* approved, and a POST /leave/cancel/{id} is only ever issued for a request
\* displayed as pending or approved.
C14_CancelOnlyPendingOrApproved ==
  /\ [](\A id \in LeaveIds :
          RowShown(id) =>
            (CancelButtonShown(id) <=> leaveHistory[id] \in {"pending", "approved"}))
  /\ [][cancelCount' # cancelCount =>
          /\ ~lvLoading
          /\ Len(cancelsInFlight') = Len(cancelsInFlight) + 1
          /\ LET id == cancelsInFlight'[Len(cancelsInFlight')]
             IN id \in DOMAIN leaveHistory /\ leaveHistory[id] \in {"pending", "approved"}]_vars

\* C14 witness: the history shows a rejected request next to an approved one
\* and a cancel request for the approved one is in flight.
C14_Witness ==
  /\ ~lvLoading
  /\ leaveHistory = <<"rejected", "approved">>
  /\ cancelsInFlight = <<2>>

\* C15: while the session is open (check-in present, no check-out) each
\* evaluation of calculateHoursWorked gives a value not below the previous
\* one; with a check-out present the value is the check-out minus the
\* check-in whatever the clock says; with no check-in it is '0.0'.
C15_HoursMonotone ==
  /\ [][(hwCheckIn # NoTime /\ hwCheckIn' = hwCheckIn
           /\ hwCheckOut = NoTime /\ hwCheckOut' = NoTime)
          => HoursValue(hoursShown') >= HoursValue(hoursShown)]_vars
  /\ [](\A now \in Times :
          (hwCheckIn # NoTime /\ hwCheckOut # NoTime) =>
             /\ calculateHoursWorked(hwCheckIn, hwCheckOut, now) = hoursShown
             /\ hoursShown.sign = ""
             /\ hoursShown.tenths * 6 - 3 <= hwCheckOut - hwCheckIn
             /\ hwCheckOut - hwCheckIn <= hoursShown.tenths * 6 + 3)
  /\ [](\A now \in Times :
          calculateHoursWorked(NoTime, hwCheckOut, now) = [sign |-> "", tenths |-> 0])

\* C15 witness: an open session, checked in at minute 1, re-evaluated at
\* minute 10 (0.15 hours, shown as '0.1').
C15_Witness ==
  /\ hwCheckIn = 1
  /\ hwCheckOut = NoTime
  /\ clock = 10
  /\ hoursShown = [sign |-> "", tenths |-> 1]

\* C16: every request sent through the shared client carries
\* 'Authorization: Bearer <token>' with the token stored when it is sent if
\* one is stored, and no Authorization header if none is stored.
C16_BearerIffTokenStored ==
  [][\A c \in calls' \ calls :
        /\ token # NoItem =>
             c.authorization = [scheme |-> "Bearer", credentials |-> token]
        /\ token = NoItem => c.authorization = [absent |-> TRUE]]_vars

\* C16 witness: a request sent with the stored token and one sent after the
\* session was cleared are in flight together.
C16_Witness ==
  /\ token = NoItem
  /\ \E c1, c2 \in calls :
        /\ c1.authorization = [scheme |-> "Bearer", credentials |-> Token]
        /\ c2.authorization = [absent |-> TRUE]

\* C18: a render of ProtectedRoute yields the protected child if and only if
\* a token is stored at that moment; without a token it yields the redirect
\* to '/' and not the child.
C18_ProtectedNeedsToken ==
  [][\A path \in ProtectedPaths :
        RenderProtectedRoute(path) =>
          /\ (routeView'.element = "children") <=> (token # NoItem)
          /\ token = NoItem =>
               (routeView' = [element |-> "Navigate", to |-> "/", replace |-> TRUE]
                /\ href' = "/")
          /\ token # NoItem => href' = path]_vars

\* C18 witness: the session was cleared and a later render of a protected
\* route produced the redirect.
C18_Witness ==
  /\ token = NoItem
  /\ routeView.element = "Navigate"
  /\ href = "/"

\* C17 (as claimed): a 401 answer to a request of the widget is handled by
\* the interceptor only; the widget's error state is left as it was.
C17_UnauthorizedNotInline ==
  /\ [][\A i \in 1..MaxPosts, d \in {ErrDetail, NoDetail} :
          PostFail(i, 401, d) => error' = error]_vars
  /\ [][\A c \in Chains : FetchFail(c, 401) => error' = error]_vars

\* C20: when a check-in or check-out request fails while the widget is
\* mounted, the error shown is the detail of the error response if it has
\* one, else 'Failed to check in' / 'Failed to check out' according to the
\* request, and no success message is shown.
C20_FailureShowsDetailOrFallback ==
  [][\A i \in 1..MaxPosts, s \in ErrorStatuses, d \in {ErrDetail, NoDetail} :
        (PostFail(i, s, d) /\ mounted) =>
          /\ d # NoDetail => error' = d
          /\ (d = NoDetail /\ posts[i].path = "/attendance/check-in") =>
               error' = "Failed to check in"
          /\ (d = NoDetail /\ posts[i].path = "/attendance/check-out") =>
               error' = "Failed to check out"
          /\ success' = ""]_vars

\* C20 witness: a check-out was submitted and failed without a detail, and
\* the fallback is on screen.
C20_Witness ==
  /\ mounted
  /\ postCount > 0
  /\ posts = <<>>
  /\ ~actionLoading
  /\ error = "Failed to check out"
  /\ success = ""

\* C19: a form issues its request only after its local validation passed:
\* send-OTP only with a phone of at least 10 digits, verify-OTP only with a
\* code of exactly 6 characters, apply-leave only with both dates set, a
\* reason that is not blank, and a computed day count above 0.
C19_ValidatedBeforeRequest ==
  [][formSent' # formSent =>
       LET r == formRequests'[Len(formRequests')]
       IN /\ Len(formRequests') = Len(formRequests) + 1
          /\ r.path = "/auth/send-otp" =>
               (Len(phone) >= 10 /\ \A k \in 1..Len(phone) : phone[k] \in {"7", "9"})
          /\ r.path = "/auth/verify-otp" => (Len(r.otp) = 6 /\ r.otp = JoinOtp)
          /\ r.path = "/leave/apply" =>
               /\ startDate # NoDate
               /\ endDate # NoDate
               /\ \E k \in 1..Len(reason) : reason[k] # " "
               /\ calculatedDays > 0]_vars

\* C19 witness: on the leave form, with a positive day count and a reason of
\* blanks, the submission was refused by the handler and nothing was sent.
C19_Witness ==
  /\ page = "leave"
  /\ calculatedDays > 0
  /\ reason = <<" ", " ">>
  /\ applyError = "Please fill all required fields"
  /\ formRequests = <<>>
  /\ formSent = 2

\* C21 (as claimed): once the initial status fetch and the initial
\* geolocation request have both completed, and nothing else has run (no
\* retry, no camera request, no click), todayAttendance, location and the
\* displayed error depend on the two outcomes only, not on which completed
\* first.  When the fetch completes first the error shown is the one
\* fetchLocation wrote last ('' or the geolocation message); the claim makes
\* it the same when the geolocation completes first.
C21_MountOrderIndependent ==
  ( /\ mounted
    /\ ~geoPending
    /\ getCount = [c \in Chains |-> IF c = "load" THEN 1 ELSE 0]
    /\ getInFlight["load"] = 0
    /\ camTimers + gumPending + Len(tracks) = 0
    /\ error # ErrCamera
    /\ postCount = 0
    /\ lastClick = "none" )
  => /\ todayAttendance = (IF retryTimers["load"] > 0 THEN NoStatus ELSE serverStatus)
     /\ location \in {NoLoc, Fix}
     /\ error = (IF location = Fix THEN ErrNone ELSE ErrGeo)

\* C22: an error answer 403 or 5xx, and a failure without any response,
\* leaves the stored token, the stored user and the browser location as
\* they were; and every error, a 401 included, is rejected to the caller.
C22_OtherErrorsOnlyPropagate ==
  [][\A c \in AllCalls, s \in ErrorStatuses :
       ResponseError(c, s) =>
         /\ s \in {NoResponse, 403, 500} => UNCHANGED <<token, user, href>>
         /\ \E r \in rejected' \ rejected : r.id = c.id /\ r.status = s]_vars

\* C22 witness: one request was answered 403 and one 500, both were rejected
\* to their callers, and the session is still in place.
C22_Witness ==
  /\ \E r1, r2 \in rejected : r1.status = 403 /\ r2.status = 500
  /\ token = Token
  /\ user = UserProfile
  /\ href = "/employee/dashboard"

\* C23 (as claimed): whenever the capture button of the camera surface is
\* enabled (the surface is rendered and cameraActive is true) a granted
\* stream is attached to the video element and its tracks are not stopped.
C23_CaptureEnabledOnlyWhileStreaming ==
  (VideoRef /\ cameraActive) => (srcObject # 0 /\ tracks[srcObject] = "live")

\* C24: the position is requested once, by the mount effect, and never
\* again: a failed request leaves none pending, no step issues a new one,
\* and once the request has failed location stays null and no check-in or
\* check-out request is issued.
C24_GeolocationNeverRetried ==
  [][ /\ GeoFail => ~geoPending'
      /\ ~geoPending => ~geoPending'
      /\ (~geoPending /\ location = NoLoc) =>
           (location' = NoLoc /\ postCount' = postCount /\ posts' = posts) ]_vars

\* C24 witness: the geolocation request failed, the status was loaded and a
\* photo captured, and the click on Check In was dropped by the disabled
\* button; nothing was sent.
C24_Witness ==
  /\ mounted
  /\ ~geoPending
  /\ location = NoLoc
  /\ canCheckIn
  /\ capturedPhoto = Photo
  /\ lastClick = "disabled"
  /\ postCount = 0

\* C25: the stored token changes to a new value only when verifyOTP or
\* refreshToken receives a response with an access_token, and is removed
\* only by logout or by a 401 answer; after every step the token and the
\* user profile are both stored or both absent, and isAuthenticated() is
\* true exactly when a token is stored.
C25_CredentialLifecycle ==
  [][ /\ (token' # token /\ token' # NoItem) =>
           \E c \in calls \ calls' : c.adapter = "auth" /\ token' \in Tokens
      /\ (token' # token /\ token' = NoItem) =>
           logout \/ \E c \in AllCalls : ResponseError(c, 401)
      /\ (token' = NoItem) <=> (user' = NoItem)
      /\ isAuthenticated' <=> (token' # NoItem) ]_vars

\* C25 witness: the session was removed by a 401 and a later verifyOTP
\* stored a new token with the user.
C25_Witness ==
  /\ \E r \in rejected : r.status = 401
  /\ token = "jwt2"
  /\ user = UserProfile
  /\ isAuthenticated
  /\ calls = {}

\* C26: todayAttendance changes only in a step in which a GET
\* /attendance/today is answered successfully (a request leaves the flight
\* and no retry is armed), and then to the status the server reports; such a
\* step of a mounted widget always assigns it.  A step that issues or
\* settles a check-in / check-out request, and one that arms a retry after a
\* failed fetch, leave it unchanged.
C26_StatusOnlyFromServer ==
  [][ /\ todayAttendance' # todayAttendance =>
           /\ todayAttendance' = serverStatus
           /\ \E c \in Chains : getInFlight'[c] = getInFlight[c] - 1
           /\ retryTimers' = retryTimers
      /\ (mounted /\ retryTimers' = retryTimers
                  /\ \E c \in Chains : getInFlight'[c] < getInFlight[c]) =>
           todayAttendance' = serverStatus
      /\ posts' # posts => todayAttendance' = todayAttendance
      /\ retryTimers' # retryTimers => todayAttendance' = todayAttendance ]_vars

\* C26 witness: the check-in was answered successfully and the server holds
\* checked-in, while the widget, its re-fetch not yet answered, still shows
\* not-started.
C26_Witness ==
  /\ mounted
  /\ success = MsgCheckedIn
  /\ serverStatus = "checked-in"
  /\ todayAttendance = "not-started"
  /\ posts = <<>>
  /\ refetchTimers + getInFlight["refetch"] = 1

\* C27 (as claimed): after a check-in of this instance has succeeded the
\* instance issues no further check-in request, and after a successful
\* check-out no further check-out request.  The instance shows its controls
\* only for a status it fetched, and only its own requests change the
\* server's status: a server past not-started (past checked-in) while
\* check-in (check-out) is offered means the instance's own request succeeded.
C27_NoSecondRequestAfterSuccess ==
  [][ Len(posts') > Len(posts) =>
        IF posts'[Len(posts')].path = "/attendance/check-in"
        THEN serverStatus = "not-started"
        ELSE serverStatus # "checked-out" ]_vars

\* C28: a step in which a check-in / check-out request fails (it leaves the
\* flight and the server's status stays) leaves capturedPhoto, notes,
\* workStatus, location and todayAttendance unchanged and arms no re-fetch
\* timer; and whenever actionLoading is true it becomes false again, for as
\* long as the instance lives.
C28_FailureKeepsInputs ==
  /\ [][ (Len(posts') < Len(posts) /\ serverStatus' = serverStatus) =>
           UNCHANGED <<capturedPhoto, notes, workStatus, location, todayAttendance,
                       refetchTimers, getInFlight>> ]_vars
  /\ (actionLoading ~> (~actionLoading \/ ~mounted))

\* C28 witness: a check-out failed; the photo, the note and the fix are still
\* there, no re-fetch is armed and the button is available again.
C28_Witness ==
  /\ mounted
  /\ canCheckOut
  /\ error = ErrCheckOut
  /\ capturedPhoto = Photo
  /\ notes = "late"
  /\ location = Fix
  /\ ~actionLoading
  /\ ~CheckOutDisabled
  /\ refetchTimers = 0
  /\ posts = <<>>

\* C29: the resend countdown of the OTP page is 60 at the start, changes
\* only by 1 down or back to 60, and is never below 0; the resend link is
\* offered (canResend) exactly when the countdown is at 0; a successful
\* resend puts the countdown back to 60 and withdraws the link, a failed one
\* changes neither.
C29_ResendCountdown ==
  /\ [](timer \in 0..60 /\ (canResend <=> timer = 0))
  /\ [][ /\ timer' # timer => (timer' = timer - 1 \/ timer' = 60)
         /\ \A i \in 1..MaxFormSends :
              (ResendSuccess(i) /\ page = "otp") => (timer' = 60 /\ ~canResend')
         /\ \A i \in 1..MaxFormSends, st \in ErrorStatuses :
              ResendFail(i, st) => UNCHANGED <<timer, canResend>> ]_vars

\* C29 witness: the countdown ran from 60 down to 0, the link was offered
\* and clicked, and the resend failed: the countdown is still at 0 and the
\* link still offered.
C29_Witness ==
  /\ page = "otp"
  /\ formRequests = <<>>
  /\ otpError = "Failed to resend OTP. Please try again."
  /\ ~resending
  /\ timer = 0
  /\ canResend

\* C30 (as claimed): once the widget is unmounted it issues no request: no
\* GET /attendance/today of either fetch chain and no check-in / check-out.
C30_NoRequestAfterTeardown ==
  [][ ~mounted => (getCount' = getCount /\ postCount' = postCount) ]_vars
====
